---------------------------- MODULE Spec2Model ----------------------------
(***************************************************************************)
(* Model of src/ai/anomaly.py: SalesAnomalyDetector (prepare_features,     *)
(* fit, predict, get_anomaly_summary) and detect_sales_anomalies.          *)
(*                                                                         *)
(* Numbers.  pandas / numpy / scikit-learn compute in float64; the model   *)
(* computes in exact integers:                                             *)
(*   - a cell of the feature matrix is a tagged value: a finite number,    *)
(*     +inf, -inf or NaN (the values float division by zero produces);     *)
(*   - a standardized cell (x - mean) / scale is kept exactly as the pair  *)
(*     num / sqrt(den2) and compared by cross-multiplication;              *)
(*   - scores of the isolation forest are integers; the contamination      *)
(*     threshold (a linearly interpolated percentile) and the decision     *)
(*     function are kept in hundredths of a score unit, contamination in   *)
(*     percent.                                                            *)
(* The isolation forest itself is library code.  Its trees are a fixed     *)
(* function of the training matrix (random_state=42); the model keeps the  *)
(* training matrix as the fitted forest and scores a point by how much of  *)
(* the training data it differs from (ScoreSamples), which has the shape   *)
(* the library documents: score_samples <= 0, lower = more isolated.       *)
(***************************************************************************)
EXTENDS Integers, Sequences, FiniteSets, TLC

(***************************************************************************)
(* Bounds of the model                                                     *)
(***************************************************************************)
\* longest batch a client passes to fit / predict in the sequential model
MaxBatch == 2
\* longest batch passed to predict by the concurrent callers
MaxConcBatch == 1
\* longest batch passed to detect_sales_anomalies / prepare_features alone
MaxDetectBatch == 3

(***************************************************************************)
(* Order records                                                           *)
(***************************************************************************)
\* An order timestamp.  parsed = FALSE is a column that was never converted
\* to datetime (a raw string): the .dt accessor fails on it.
Date(y, m, d) == [parsed |-> TRUE, year |-> y, month |-> m, day |-> d]
RawDate == [parsed |-> FALSE, year |-> 0, month |-> 0, day |-> 0]

Order(num, sales, qty, date, product, country, status) ==
    [ORDERNUMBER |-> num, SALES |-> sales, QUANTITYORDERED |-> qty,
     ORDERDATE |-> date, PRODUCTLINE |-> product, COUNTRY |-> country,
     STATUS |-> status]

\* two well-formed orders with different categories (Monday / Saturday)
OrderA == Order(1, 6, 2, Date(2003, 2, 24), "Motorcycles", "USA", "Shipped")
OrderB == Order(2, 8, 2, Date(2003, 5, 10), "Classic Cars", "France", "Cancelled")
\* quantity 0 with a positive sale amount, and with sale amount 0
OrderZ == Order(3, 6, 0, Date(2003, 2, 24), "Motorcycles", "USA", "Shipped")
OrderZ0 == Order(4, 0, 0, Date(2003, 2, 24), "Motorcycles", "USA", "Shipped")
\* an order whose timestamp was not parsed
OrderRaw == Order(5, 6, 2, RawDate, "Motorcycles", "USA", "Shipped")

\* the orders clients of the detector pass in
ApiOrders == {OrderA, OrderB, OrderZ}
\* the orders given to the feature builder and to detect_sales_anomalies
AllOrders == {OrderA, OrderB, OrderZ, OrderZ0, OrderRaw}

\* all batches (DataFrames, as sequences of rows) of at most n orders
BatchesOf(orders, n) == UNION {[1..k -> orders] : k \in 0..n}

\* the contamination values a detector is constructed with, in percent:
\* the default 0.1, the largest value the forest accepts (0.5), and one it
\* rejects when it is fitted (0.7)
Contaminations == {10, 50, 70}

(***************************************************************************)
(* Sequences                                                               *)
(***************************************************************************)
RECURSIVE SumSeq(_)
SumSeq(s) == IF s = <<>> THEN 0 ELSE Head(s) + SumSeq(Tail(s))

\* insert x into the ascending sequence s
RECURSIVE Insert(_, _)
Insert(x, s) ==
    IF s = <<>> THEN <<x>>
    ELSE IF x <= Head(s) THEN <<x>> \o s
    ELSE <<Head(s)>> \o Insert(x, Tail(s))

\* numpy's sort of a vector of numbers, ascending
RECURSIVE Sorted(_)
Sorted(s) == IF s = <<>> THEN <<>> ELSE Insert(Head(s), Sorted(Tail(s)))

(***************************************************************************)
(* Cells of the feature matrix                                             *)
(***************************************************************************)
Num(v) == [k |-> "num", v |-> v]
PosInf == [k |-> "inf", v |-> 1]
NegInf == [k |-> "inf", v |-> -1]
NaN == [k |-> "nan", v |-> 0]

IsFinite(c) == c.k = "num"

\* features['SALES'] / features['QUANTITYORDERED']: float division; a zero
\* divisor gives +-inf, and 0 / 0 gives NaN, without raising.  The orders of
\* the model have SALES divisible by QUANTITYORDERED, so the quotient is exact.
TrueDiv(s, q) ==
    IF q # 0 THEN Num(s \div q)
    ELSE IF s > 0 THEN PosInf
    ELSE IF s < 0 THEN NegInf
    ELSE NaN

\* floor(log2(x)) for x >= 1
RECURSIVE Log2(_)
Log2(x) == IF x <= 1 THEN 0 ELSE 1 + Log2(x \div 2)

\* np.log1p(SALES), on SALES >= 0, as the integer part of the base-2 logarithm
Log1p(s) == Num(Log2(1 + s))

\* DataFrame.fillna(0) on one cell: NaN becomes 0, +-inf stays
FillNa(c) == IF c.k = "nan" THEN Num(0) ELSE c

(***************************************************************************)
(* Time-based features                                                     *)
(***************************************************************************)
MonthShift == <<0, 3, 2, 5, 0, 3, 5, 1, 4, 6, 2, 4>>

\* Series.dt.dayofweek: Monday = 0 .. Sunday = 6
DayOfWeek(date) ==
    LET y == IF date.month < 3 THEN date.year - 1 ELSE date.year
        sun0 == (y + (y \div 4) - (y \div 100) + (y \div 400)
                   + MonthShift[date.month] + date.day) % 7
    IN (sun0 + 6) % 7

\* Series.dt.quarter
Quarter(date) == ((date.month - 1) \div 3) + 1

\* day_of_week.isin([5, 6]).astype(int)
IsWeekend(dow) == IF dow \in {5, 6} THEN 1 ELSE 0

(***************************************************************************)
(* Categorical encodings                                                   *)
(***************************************************************************)
\* the category values of the model in lexicographic order, the order in
\* which pd.Categorical sorts the distinct values of a column
CategoryOrder ==
    <<"Cancelled", "Classic Cars", "France", "Motorcycles", "Shipped", "USA">>

Rank(v) == CHOOSE i \in 1..Len(CategoryOrder) : CategoryOrder[i] = v

\* pd.Categorical(column).codes: the categories are the sorted distinct values
\* of THIS column, and the code of a value is its position among them
CategoricalCodes(column) ==
    LET present == {column[i] : i \in 1..Len(column)}
    IN [i \in 1..Len(column) |->
            Cardinality({v \in present : Rank(v) < Rank(column[i])})]

Column(df, field) == [i \in 1..Len(df) |-> df[i][field]]

(***************************************************************************)
(* prepare_features                                                        *)
(***************************************************************************)
\* positions of the columns in feature_columns
F_SALES == 1
F_QUANTITY == 2
F_DAY_OF_WEEK == 3
F_MONTH == 4
F_QUARTER == 5
F_IS_WEEKEND == 6
F_SALES_PER_QUANTITY == 7
F_LOG_SALES == 8
F_PRODUCT == 9
F_COUNTRY == 10
F_STATUS == 11
NumFeatures == 11

Ok(v) == [raised |-> FALSE, error |-> "", value |-> v]
Raise(e) == [raised |-> TRUE, error |-> e, value |-> <<>>]

\* the feature row of row i of df
FeatureRow(df, i) ==
    LET r == df[i]
        dow == DayOfWeek(r.ORDERDATE)
    IN << Num(r.SALES),
          Num(r.QUANTITYORDERED),
          Num(dow),
          Num(r.ORDERDATE.month),
          Num(Quarter(r.ORDERDATE)),
          Num(IsWeekend(dow)),
          FillNa(TrueDiv(r.SALES, r.QUANTITYORDERED)),
          FillNa(Log1p(r.SALES)),
          Num(CategoricalCodes(Column(df, "PRODUCTLINE"))[i]),
          Num(CategoricalCodes(Column(df, "COUNTRY"))[i]),
          Num(CategoricalCodes(Column(df, "STATUS"))[i]) >>

\* prepare_features(df): one feature row per row of df, in the order of df.
\* The .dt accessor raises on a column that is not datetime.
prepare_features(df) ==
    IF \E i \in 1..Len(df) : ~df[i].ORDERDATE.parsed
    THEN Raise("AttributeError")
    ELSE Ok([i \in 1..Len(df) |-> FeatureRow(df, i)])

(***************************************************************************)
(* StandardScaler                                                          *)
(***************************************************************************)
Zeros == [j \in 1..NumFeatures |-> 0]

\* StandardScaler(): nothing learnt yet.  The fitted statistics are kept as
\* the sample count and the per-feature sum and sum of squares, from which
\* mean_ = sum / n and var_ = sumsq / n - mean_^2.
NewScaler == [fitted |-> FALSE, n |-> 0, sum |-> Zeros, sumsq |-> Zeros]

\* check_array(X, force_all_finite='allow-nan'): at least one sample and no
\* infinity.  (No NaN reaches the scaler: prepare_features ends in fillna(0).)
ValidArray(X) ==
    /\ Len(X) >= 1
    /\ \A i \in 1..Len(X) : \A j \in 1..NumFeatures : X[i][j].k # "inf"

\* StandardScaler.partial_fit(X): the statistics of X added to those held
PartialFit(scaler, X) ==
    [fitted |-> TRUE,
     n |-> scaler.n + Len(X),
     sum |-> [j \in 1..NumFeatures |->
                scaler.sum[j] + SumSeq([i \in 1..Len(X) |-> X[i][j].v])],
     sumsq |-> [j \in 1..NumFeatures |->
                scaler.sumsq[j] + SumSeq([i \in 1..Len(X) |-> X[i][j].v * X[i][j].v])]]

\* (x - mean_[j]) / scale_[j], exactly, as num / sqrt(den2):
\*   n^2 * var = n * sumsq - sum^2, scale_ = sqrt(var), and scale_ = 1 where
\*   var = 0 (the library's handling of constant features).
ScaleCell(scaler, j, x) ==
    LET nvar == scaler.n * scaler.sumsq[j] - scaler.sum[j] * scaler.sum[j]
    IN [num |-> scaler.n * x - scaler.sum[j],
        den2 |-> IF nvar = 0 THEN scaler.n * scaler.n ELSE nvar]

ScaleMatrix(scaler, X) ==
    [i \in 1..Len(X) |-> [j \in 1..NumFeatures |-> ScaleCell(scaler, j, X[i][j].v)]]

\* a fit that keeps what earlier fits learnt (partial_fit in place of fit)
KeepScaler(scaler) == scaler

\* the scaler fit() leaves behind when it raises: fit() resets the learnt
\* statistics before it validates its input
ResetScaler(scaler) == NewScaler

\* StandardScaler.fit_transform(X) = fit(X).transform(X); fit(X) is a reset
\* followed by partial_fit(X), which validates X first
ScalerFitTransform(scaler, X) ==
    LET reset == ResetScaler(scaler)
    IN IF ~ValidArray(X)
       THEN [scaler |-> reset, raised |-> TRUE, error |-> "ValueError", value |-> <<>>]
       ELSE LET fitted == PartialFit(reset, X)
            IN [scaler |-> fitted, raised |-> FALSE, error |-> "",
                value |-> ScaleMatrix(fitted, X)]

\* a transform that refits the scaler on X (fit_transform in place of transform)
ScalerRefit(scaler, X) == PartialFit(NewScaler, X)

\* the scaler after transform(X): transform only reads it
ScalerAfterTransform(scaler, X) == scaler

\* StandardScaler.transform(X)
ScalerTransform(scaler, X) ==
    IF ~scaler.fitted
    THEN [scaler |-> scaler, raised |-> TRUE, error |-> "NotFittedError", value |-> <<>>]
    ELSE IF ~ValidArray(X)
    THEN [scaler |-> scaler, raised |-> TRUE, error |-> "ValueError", value |-> <<>>]
    ELSE [scaler |-> ScalerAfterTransform(scaler, X), raised |-> FALSE, error |-> "",
          value |-> ScaleMatrix(scaler, X)]

(***************************************************************************)
(* IsolationForest                                                         *)
(***************************************************************************)
Sign(x) == IF x > 0 THEN 1 ELSE IF x < 0 THEN -1 ELSE 0

\* equality of two standardized cells a.num/sqrt(a.den2) = b.num/sqrt(b.den2)
SameValue(a, b) ==
    /\ Sign(a.num) = Sign(b.num)
    /\ a.num * a.num * b.den2 = b.num * b.num * a.den2

\* IsolationForest(contamination=contamination, random_state=42), unfitted
NewForest(c) == [contamination |-> c, fitted |-> FALSE, train |-> <<>>, offset |-> 0]

\* score_samples(x) of a forest grown on `train`: minus the number of cells
\* of the training matrix that x differs from.  0 for a point equal to all
\* the training data, lower for a point the trees isolate sooner.
ScoreSamples(train, x) ==
    - Cardinality({p \in (1..Len(train)) \X (1..NumFeatures) :
                      ~SameValue(train[p[1]][p[2]], x[p[2]])})

\* np.percentile(scores, q) with linear interpolation, in hundredths
Percentile(scores, q) ==
    LET s == Sorted(scores)
        pos == (Len(s) - 1) * q
        lo == (pos \div 100) + 1
        frac == pos % 100
    IN IF frac = 0 THEN 100 * s[lo]
       ELSE 100 * s[lo] + frac * (s[lo + 1] - s[lo])

\* the contamination values IsolationForest.fit accepts: (0, 0.5]
ValidContamination(c) == c > 0 /\ c <= 50

\* IsolationForest.fit(X): the parameters are validated, the trees are grown
\* anew on X, and offset_ is set to the contamination percentile of the scores
\* of the training data
ForestFit(forest, X) ==
    IF ~ValidContamination(forest.contamination)
    THEN [forest |-> forest, raised |-> TRUE, error |-> "InvalidParameterError"]
    ELSE [forest |-> [contamination |-> forest.contamination,
                      fitted |-> TRUE,
                      train |-> X,
                      offset |-> Percentile([i \in 1..Len(X) |-> ScoreSamples(X, X[i])],
                                            forest.contamination)],
          raised |-> FALSE, error |-> ""]

\* IsolationForest.decision_function(X) = score_samples(X) - offset_,
\* in hundredths
DecisionFunction(forest, X) ==
    [i \in 1..Len(X) |-> 100 * ScoreSamples(forest.train, X[i]) - forest.offset]

\* a classification that also flags the points on the threshold
ForestPredictInclusive(forest, X) ==
    [i \in 1..Len(X) |-> IF 100 * ScoreSamples(forest.train, X[i]) - forest.offset <= 0
                           THEN -1 ELSE 1]

\* IsolationForest.predict(X): -1 where decision_function(X) < 0, else 1
ForestPredict(forest, X) ==
    [i \in 1..Len(X) |-> IF DecisionFunction(forest, X)[i] < 0 THEN -1 ELSE 1]

(***************************************************************************)
(* SalesAnomalyDetector                                                    *)
(***************************************************************************)
\* __init__(contamination)
NewDetector(c) ==
    [contamination |-> c,
     isolation_forest |-> NewForest(c),
     scaler |-> NewScaler,
     is_fitted |-> FALSE]

Abs(x) == IF x < 0 THEN -x ELSE x

\* a result row whose severity is the score itself, sign kept
ResultRowSigned(r, score, prediction) ==
    [ORDERNUMBER |-> r.ORDERNUMBER, SALES |-> r.SALES,
     QUANTITYORDERED |-> r.QUANTITYORDERED, ORDERDATE |-> r.ORDERDATE,
     PRODUCTLINE |-> r.PRODUCTLINE, COUNTRY |-> r.COUNTRY, STATUS |-> r.STATUS,
     anomaly_score |-> score,
     is_anomaly |-> (prediction = -1),
     anomaly_severity |-> score]

\* results = df.copy() with the three columns added, row by row
ResultRow(r, score, prediction) ==
    [ORDERNUMBER |-> r.ORDERNUMBER, SALES |-> r.SALES,
     QUANTITYORDERED |-> r.QUANTITYORDERED, ORDERDATE |-> r.ORDERDATE,
     PRODUCTLINE |-> r.PRODUCTLINE, COUNTRY |-> r.COUNTRY, STATUS |-> r.STATUS,
     anomaly_score |-> score,
     is_anomaly |-> (prediction = -1),
     anomaly_severity |-> Abs(score)]

\* results assembled in reverse row order
ResultsReversed(df, anomaly_scores, anomaly_predictions) ==
    [i \in 1..Len(df) |-> ResultRow(df[Len(df) + 1 - i],
                                    anomaly_scores[Len(df) + 1 - i],
                                    anomaly_predictions[Len(df) + 1 - i])]

Results(df, anomaly_scores, anomaly_predictions) ==
    [i \in 1..Len(df) |-> ResultRow(df[i], anomaly_scores[i], anomaly_predictions[i])]

\* fit(df) run to its end: the detector it leaves and the error it raised
fit(self, df) ==
    LET features == prepare_features(df)
    IN IF features.raised
       THEN [self |-> self, raised |-> TRUE, error |-> features.error]
       ELSE
       LET scaled == ScalerFitTransform(self.scaler, features.value)
           self1 == [self EXCEPT !.scaler = scaled.scaler]
       IN IF scaled.raised
          THEN [self |-> self1, raised |-> TRUE, error |-> scaled.error]
          ELSE
          LET grown == ForestFit(self1.isolation_forest, scaled.value)
              self2 == [self1 EXCEPT !.isolation_forest = grown.forest]
          IN IF grown.raised
             THEN [self |-> self2, raised |-> TRUE, error |-> grown.error]
             ELSE [self |-> [self2 EXCEPT !.is_fitted = TRUE],
                   raised |-> FALSE, error |-> ""]

\* predict(df) run to its end: the detector it leaves, and the results it
\* returns or the error it raised
predict(self, df) ==
    IF ~self.is_fitted
    THEN [self |-> self, raised |-> TRUE, error |-> "not fitted", value |-> <<>>]
    ELSE
    LET features == prepare_features(df)
    IN IF features.raised
       THEN [self |-> self, raised |-> TRUE, error |-> features.error, value |-> <<>>]
       ELSE
       LET scaled == ScalerTransform(self.scaler, features.value)
           self1 == [self EXCEPT !.scaler = scaled.scaler]
       IN IF scaled.raised
          THEN [self |-> self1, raised |-> TRUE, error |-> scaled.error, value |-> <<>>]
          ELSE [self |-> self1, raised |-> FALSE, error |-> "",
                value |-> Results(df,
                                  DecisionFunction(self1.isolation_forest, scaled.value),
                                  ForestPredict(self1.isolation_forest, scaled.value))]

(***************************************************************************)
(* get_anomaly_summary                                                     *)
(***************************************************************************)
\* the rows of results_df selected by the boolean column is_anomaly, in order
RECURSIVE SelectAnomalies(_)
SelectAnomalies(rows) ==
    IF rows = <<>> THEN <<>>
    ELSE IF Head(rows).is_anomaly
         THEN <<Head(rows)>> \o SelectAnomalies(Tail(rows))
         ELSE SelectAnomalies(Tail(rows))

\* Series.value_counts() replaced by the values present, each counted once
ValueCountsOnce(rows, field) ==
    [v \in {rows[i][field] : i \in 1..Len(rows)} |-> 1]

\* Series.value_counts().to_dict(): the values present, each with its count
ValueCounts(rows, field) ==
    [v \in {rows[i][field] : i \in 1..Len(rows)} |->
        Cardinality({i \in 1..Len(rows) : rows[i][field] = v})]

\* the first k rows in ascending anomaly_score, of rows of equal score the
\* later one first (keep='last')
RECURSIVE NSmallestLast(_, _)
NSmallestLast(k, rows) ==
    IF k = 0 \/ rows = <<>> THEN <<>>
    ELSE LET m == CHOOSE i \in 1..Len(rows) :
                    /\ \A j \in 1..Len(rows) : rows[i].anomaly_score <= rows[j].anomaly_score
                    /\ \A j \in (i + 1)..Len(rows) : rows[j].anomaly_score > rows[i].anomaly_score
         IN <<rows[m]>> \o
            NSmallestLast(k - 1, [j \in 1..(Len(rows) - 1) |->
                                     IF j < m THEN rows[j] ELSE rows[j + 1]])

\* the first k rows of rows in ascending anomaly_score, rows of equal score
\* in their original order (nsmallest, keep='first')
RECURSIVE NSmallest(_, _)
NSmallest(k, rows) ==
    IF k = 0 \/ rows = <<>> THEN <<>>
    ELSE LET m == CHOOSE i \in 1..Len(rows) :
                    /\ \A j \in 1..Len(rows) : rows[i].anomaly_score <= rows[j].anomaly_score
                    /\ \A j \in 1..(i - 1) : rows[j].anomaly_score > rows[i].anomaly_score
         IN <<rows[m]>> \o
            NSmallest(k - 1, [j \in 1..(Len(rows) - 1) |->
                                 IF j < m THEN rows[j] ELSE rows[j + 1]])

TopOrders == 5

OrderEntry(r) ==
    [ORDERNUMBER |-> r.ORDERNUMBER, SALES |-> r.SALES, anomaly_score |-> r.anomaly_score]

\* a summary that tests the number of rows instead of the number of flagged
\* rows before it computes the rate
get_anomaly_summary_by_rows(results_df) ==
    LET anomalies == SelectAnomalies(results_df)
        scores == [i \in 1..Len(anomalies) |-> anomalies[i].anomaly_score]
        top == NSmallest(TopOrders, anomalies)
    IN IF Len(results_df) = 0
       THEN [total_anomalies |-> 0,
             anomaly_rate |-> <<0, 1>>,
             message |-> "No anomalies detected"]
       ELSE [total_anomalies |-> Len(anomalies),
             anomaly_rate |-> <<Len(anomalies) * 100, Len(results_df)>>,
             avg_anomaly_score |-> <<SumSeq(scores), Len(anomalies)>>,
             max_anomaly_score |-> IF scores = <<>> THEN 0 ELSE Sorted(scores)[1],
             anomaly_by_product |-> ValueCounts(anomalies, "PRODUCTLINE"),
             anomaly_by_country |-> ValueCounts(anomalies, "COUNTRY"),
             anomaly_by_status |-> ValueCounts(anomalies, "STATUS"),
             top_anomalous_orders |-> [i \in 1..Len(top) |-> OrderEntry(top[i])]]

\* get_anomaly_summary(results_df).  anomaly_rate and avg_anomaly_score are
\* float quotients, kept as numerator and denominator.
get_anomaly_summary(results_df) ==
    LET anomalies == SelectAnomalies(results_df)
        scores == [i \in 1..Len(anomalies) |-> anomalies[i].anomaly_score]
        top == NSmallest(TopOrders, anomalies)
    IN IF Len(anomalies) = 0
       THEN [total_anomalies |-> 0,
             anomaly_rate |-> <<0, 1>>,
             message |-> "No anomalies detected"]
       ELSE [total_anomalies |-> Len(anomalies),
             anomaly_rate |-> <<Len(anomalies) * 100, Len(results_df)>>,
             avg_anomaly_score |-> <<SumSeq(scores), Len(anomalies)>>,
             max_anomaly_score |-> Sorted(scores)[1],
             anomaly_by_product |-> ValueCounts(anomalies, "PRODUCTLINE"),
             anomaly_by_country |-> ValueCounts(anomalies, "COUNTRY"),
             anomaly_by_status |-> ValueCounts(anomalies, "STATUS"),
             top_anomalous_orders |-> [i \in 1..Len(top) |-> OrderEntry(top[i])]]

(***************************************************************************)
(* State                                                                   *)
(***************************************************************************)
VARIABLES
    detector,   \* the SalesAnomalyDetector: contamination, isolation_forest,
                \* scaler, is_fitted
    frame,      \* per caller, the call it is in: the method, the line it is
                \* at, its argument and its local variables
    ret,        \* per caller, what its last call returned or raised
    fit_df      \* history: the batch of the last fit call that completed

vars == <<detector, frame, ret, fit_df>>

\* the client of the sequential model, and the callers of the concurrent one
MainCaller == "main"
Callers == {"t1", "t2"}

\* the callers of a behaviour
AllCallers == DOMAIN frame

\* no detector: the entry value of a caller that is in no call
NoEntry == [is_fitted |-> FALSE]

Idle ==
    [op |-> "idle", pc |-> "idle", df |-> <<>>, entry |-> NoEntry,
     features |-> <<>>, features_scaled |-> <<>>,
     anomaly_scores |-> <<>>, anomaly_predictions |-> <<>>, results |-> <<>>]

NoReturn ==
    [op |-> "none", df |-> <<>>, entry |-> NoEntry,
     raised |-> FALSE, error |-> "", value |-> <<>>, summary |-> <<>>]

\* the call of c returns v / raises e: its frame is dropped
Return(c, v) ==
    /\ ret' = [ret EXCEPT ![c] = [op |-> frame[c].op, df |-> frame[c].df,
                                   entry |-> frame[c].entry,
                                   raised |-> FALSE, error |-> "", value |-> v,
                                   summary |-> <<>>]]
    /\ frame' = [frame EXCEPT ![c] = Idle]

Raised(c, e) ==
    /\ ret' = [ret EXCEPT ![c] = [op |-> frame[c].op, df |-> frame[c].df,
                                   entry |-> frame[c].entry,
                                   raised |-> TRUE, error |-> e, value |-> <<>>,
                                   summary |-> <<>>]]
    /\ frame' = [frame EXCEPT ![c] = Idle]

Goto(c, pc, field, v) ==
    /\ frame' = [frame EXCEPT ![c] = [@ EXCEPT !.pc = pc, ![field] = v]]
    /\ UNCHANGED ret

At(c, op, pc) == frame[c].op = op /\ frame[c].pc = pc

\* detector = SalesAnomalyDetector(contamination)
Init ==
    /\ \E c \in Contaminations : detector = NewDetector(c)
    /\ frame = [c \in {MainCaller} |-> Idle]
    /\ ret = [c \in {MainCaller} |-> NoReturn]
    /\ fit_df = <<>>

(***************************************************************************)
(* fit, line by line                                                       *)
(***************************************************************************)
Enter(c, op, df) ==
    /\ frame' = [frame EXCEPT ![c] = [Idle EXCEPT !.op = op, !.pc = "enter",
                                                   !.df = df, !.entry = detector]]
    /\ ret' = [ret EXCEPT ![c] = NoReturn]
    /\ UNCHANGED <<detector, fit_df>>

\* detector.fit(df) is called
CallFit(c, df) ==
    /\ frame[c].op = "idle"
    /\ Enter(c, "fit", df)

\* features = self.prepare_features(df)
FitPrepare(c) ==
    /\ At(c, "fit", "enter")
    /\ LET features == prepare_features(frame[c].df)
       IN IF features.raised
          THEN Raised(c, features.error)
          ELSE Goto(c, "scale", "features", features.value)
    /\ UNCHANGED <<detector, fit_df>>

\* features_scaled = self.scaler.fit_transform(features)
FitScale(c) ==
    /\ At(c, "fit", "scale")
    /\ LET scaled == ScalerFitTransform(detector.scaler, frame[c].features)
       IN /\ detector' = [detector EXCEPT !.scaler = scaled.scaler]
          /\ IF scaled.raised
             THEN Raised(c, scaled.error)
             ELSE Goto(c, "grow", "features_scaled", scaled.value)
    /\ UNCHANGED fit_df

\* a fit that sets is_fitted before it grows the forest
FitGrowFlagFirst(c) ==
    /\ At(c, "fit", "grow")
    /\ LET grown == ForestFit(detector.isolation_forest, frame[c].features_scaled)
       IN /\ detector' = [detector EXCEPT !.isolation_forest = grown.forest,
                                           !.is_fitted = TRUE]
          /\ IF grown.raised
             THEN Raised(c, grown.error)
             ELSE Goto(c, "flag", "pc", "flag")
    /\ UNCHANGED fit_df

\* self.isolation_forest.fit(features_scaled)
FitGrow(c) ==
    /\ At(c, "fit", "grow")
    /\ LET grown == ForestFit(detector.isolation_forest, frame[c].features_scaled)
       IN /\ detector' = [detector EXCEPT !.isolation_forest = grown.forest]
          /\ IF grown.raised
             THEN Raised(c, grown.error)
             ELSE Goto(c, "flag", "pc", "flag")
    /\ UNCHANGED fit_df

\* self.is_fitted = True, and fit returns
FitSetFitted(c) ==
    /\ At(c, "fit", "flag")
    /\ detector' = [detector EXCEPT !.is_fitted = TRUE]
    /\ fit_df' = frame[c].df
    /\ Return(c, <<>>)

(***************************************************************************)
(* predict, line by line                                                   *)
(***************************************************************************)
\* detector.predict(df) is called
CallPredict(c, df) ==
    /\ frame[c].op = "idle"
    /\ Enter(c, "predict", df)

\* a predict without the is_fitted check
PredictCheckUnguarded(c) ==
    /\ At(c, "predict", "enter")
    /\ Goto(c, "prepare", "pc", "prepare")
    /\ UNCHANGED <<detector, fit_df>>

\* if not self.is_fitted: raise ValueError(...)
PredictCheck(c) ==
    /\ At(c, "predict", "enter")
    /\ IF ~detector.is_fitted
       THEN Raised(c, "not fitted")
       ELSE Goto(c, "prepare", "pc", "prepare")
    /\ UNCHANGED <<detector, fit_df>>

\* features = self.prepare_features(df)
PredictPrepare(c) ==
    /\ At(c, "predict", "prepare")
    /\ LET features == prepare_features(frame[c].df)
       IN IF features.raised
          THEN Raised(c, features.error)
          ELSE Goto(c, "scale", "features", features.value)
    /\ UNCHANGED <<detector, fit_df>>

\* features_scaled = self.scaler.transform(features)
PredictScale(c) ==
    /\ At(c, "predict", "scale")
    /\ LET scaled == ScalerTransform(detector.scaler, frame[c].features)
       IN /\ detector' = [detector EXCEPT !.scaler = scaled.scaler]
          /\ IF scaled.raised
             THEN Raised(c, scaled.error)
             ELSE Goto(c, "score", "features_scaled", scaled.value)
    /\ UNCHANGED fit_df

\* anomaly_scores = self.isolation_forest.decision_function(features_scaled)
PredictScore(c) ==
    /\ At(c, "predict", "score")
    /\ Goto(c, "classify", "anomaly_scores",
            DecisionFunction(detector.isolation_forest, frame[c].features_scaled))
    /\ UNCHANGED <<detector, fit_df>>

\* anomaly_predictions = self.isolation_forest.predict(features_scaled)
PredictClassify(c) ==
    /\ At(c, "predict", "classify")
    /\ Goto(c, "assemble", "anomaly_predictions",
            ForestPredict(detector.isolation_forest, frame[c].features_scaled))
    /\ UNCHANGED <<detector, fit_df>>

\* results = df.copy(); the three columns are added; return results
PredictReturn(c) ==
    /\ At(c, "predict", "assemble")
    /\ Return(c, Results(frame[c].df, frame[c].anomaly_scores,
                         frame[c].anomaly_predictions))
    /\ UNCHANGED <<detector, fit_df>>

\* detector.get_anomaly_summary(results) on the results the caller's last
\* predict returned
CallGetAnomalySummary(c) ==
    /\ frame[c].op = "idle"
    /\ ret[c].op = "predict" /\ ~ret[c].raised
    /\ ret' = [ret EXCEPT ![c] = [@ EXCEPT !.op = "get_anomaly_summary",
                                            !.entry = detector,
                                            !.summary = get_anomaly_summary(ret[c].value)]]
    /\ UNCHANGED <<detector, frame, fit_df>>

\* one line of the fit call c is in
FitStep(c) ==
    \/ FitPrepare(c)
    \/ FitScale(c)
    \/ FitGrow(c)
    \/ FitSetFitted(c)

\* one line of the predict call c is in
PredictStep(c) ==
    \/ PredictCheck(c)
    \/ PredictPrepare(c)
    \/ PredictScale(c)
    \/ PredictScore(c)
    \/ PredictClassify(c)
    \/ PredictReturn(c)

(***************************************************************************)
(* The sequential client: one call at a time, each run to its end          *)
(***************************************************************************)
Batches == BatchesOf(ApiOrders, MaxBatch)

Next ==
    \/ \E df \in Batches : CallFit(MainCaller, df)
    \/ \E df \in Batches : CallPredict(MainCaller, df)
    \/ CallGetAnomalySummary(MainCaller)
    \/ FitStep(MainCaller)
    \/ PredictStep(MainCaller)

Spec == Init /\ [][Next]_vars

(***************************************************************************)
(* Concurrent callers of predict on a fitted detector, no fit running      *)
(***************************************************************************)
ConcBatches == BatchesOf(ApiOrders, MaxConcBatch)

\* a detector on which one fit call completed
InitConc ==
    /\ \E c \in Contaminations : \E df \in Batches :
          LET done == fit(NewDetector(c), df)
          IN /\ ~done.raised
             /\ detector = done.self
             /\ fit_df = df
    /\ frame = [c \in Callers |-> Idle]
    /\ ret = [c \in Callers |-> NoReturn]

NextConc ==
    \E c \in Callers :
        \/ \E df \in ConcBatches : CallPredict(c, df)
        \/ PredictStep(c)

SpecConc == InitConc /\ [][NextConc]_vars

(***************************************************************************)
(* detect_sales_anomalies                                                  *)
(***************************************************************************)
DetectBatches == BatchesOf(AllOrders, MaxDetectBatch)

\* detect_sales_anomalies run on the detector left by the call before it
CallDetectShared(c, df, contamination) ==
    /\ frame[c].op = "idle"
    /\ detector' = detector
    /\ frame' = [frame EXCEPT ![c] = [Idle EXCEPT !.op = "detect", !.pc = "fit",
                                                   !.df = df,
                                                   !.entry = NewDetector(contamination)]]
    /\ ret' = [ret EXCEPT ![c] = NoReturn]
    /\ fit_df' = <<>>

\* detect_sales_anomalies(df, contamination) is called:
\* detector = SalesAnomalyDetector(contamination=contamination)
CallDetect(c, df, contamination) ==
    /\ frame[c].op = "idle"
    /\ detector' = NewDetector(contamination)
    /\ frame' = [frame EXCEPT ![c] = [Idle EXCEPT !.op = "detect", !.pc = "fit",
                                                   !.df = df,
                                                   !.entry = NewDetector(contamination)]]
    /\ ret' = [ret EXCEPT ![c] = NoReturn]
    /\ fit_df' = <<>>

\* detector.fit(df)
DetectFit(c) ==
    /\ At(c, "detect", "fit")
    /\ LET done == fit(detector, frame[c].df)
       IN /\ detector' = done.self
          /\ IF done.raised
             THEN Raised(c, done.error) /\ UNCHANGED fit_df
             ELSE Goto(c, "predict", "pc", "predict") /\ fit_df' = frame[c].df

\* results = detector.predict(df)
DetectPredict(c) ==
    /\ At(c, "detect", "predict")
    /\ LET done == predict(detector, frame[c].df)
       IN /\ detector' = done.self
          /\ IF done.raised
             THEN Raised(c, done.error)
             ELSE Goto(c, "summary", "results", done.value)
    /\ UNCHANGED fit_df

\* summary = detector.get_anomaly_summary(results); return results, summary
DetectSummary(c) ==
    /\ At(c, "detect", "summary")
    /\ ret' = [ret EXCEPT ![c] = [op |-> "detect", df |-> frame[c].df,
                                   entry |-> frame[c].entry,
                                   raised |-> FALSE, error |-> "",
                                   value |-> frame[c].results,
                                   summary |-> get_anomaly_summary(frame[c].results)]]
    /\ frame' = [frame EXCEPT ![c] = Idle]
    /\ UNCHANGED <<detector, fit_df>>

NextDetect ==
    \/ \E df \in DetectBatches : \E k \in Contaminations : CallDetect(MainCaller, df, k)
    \/ DetectFit(MainCaller)
    \/ DetectPredict(MainCaller)
    \/ DetectSummary(MainCaller)

SpecDetect == Init /\ [][NextDetect]_vars

(***************************************************************************)
(* Properties                                                              *)
(***************************************************************************)
SameOutcome(r, done) ==
    /\ r.raised = done.raised
    /\ r.error = done.error
    /\ r.value = done.value

NoLocals(f) ==
    /\ f.features = <<>>
    /\ f.features_scaled = <<>>
    /\ f.anomaly_scores = <<>>
    /\ f.anomaly_predictions = <<>>

\* C1: predict on a detector that is not fitted raises the "not fitted" error
\* at its first line: no feature is built and nothing is scored, no result is
\* returned, and is_fitted, the scaler and the forest stay as they were.
C1_NotFittedGuard ==
    \A c \in AllCallers :
        /\ (frame[c].op = "predict" /\ ~frame[c].entry.is_fitted) =>
              /\ frame[c].pc = "enter"
              /\ NoLocals(frame[c])
              /\ detector = frame[c].entry
        /\ (ret[c].op = "predict" /\ ~ret[c].entry.is_fitted) =>
              /\ ret[c].raised
              /\ ret[c].error = "not fitted"
              /\ ret[c].value = <<>>
              /\ detector = ret[c].entry

\* a predict call on an unfitted detector has ended; here on a detector whose
\* scaler an earlier failed fit had already fitted
C1_Witness ==
    /\ ret[MainCaller].op = "predict"
    /\ ret[MainCaller].raised
    /\ ~ret[MainCaller].entry.is_fitted
    /\ ret[MainCaller].entry.scaler.fitted

\* C2: is_fitted is false after construction; it turns true only in the last
\* line of a fit call, which then returns without error; once true it stays
\* true; no line of predict and no get_anomaly_summary changes it.
C2_FittedLifecycle ==
    /\ ~detector.is_fitted
    /\ [][/\ detector.is_fitted => detector'.is_fitted
          /\ (~detector.is_fitted /\ detector'.is_fitted) =>
                \E c \in AllCallers :
                    /\ At(c, "fit", "flag")
                    /\ frame'[c].op = "idle"
                    /\ ret'[c].op = "fit"
                    /\ ~ret'[c].raised
          /\ (\A c \in AllCallers : frame[c].op # "fit") =>
                detector'.is_fitted = detector.is_fitted]_vars

\* a summary was taken of a predict result on a fitted detector
C2_Witness ==
    /\ detector.is_fitted
    /\ ret[MainCaller].op = "get_anomaly_summary"

\* C3: a fit call that raises leaves the scaler, the forest and is_fitted
\* exactly as they were when it was called.
C3_NoPartialFit ==
    \A c \in AllCallers :
        (ret[c].op = "fit" /\ ret[c].raised) =>
            /\ detector.scaler = ret[c].entry.scaler
            /\ detector.isolation_forest = ret[c].entry.isolation_forest
            /\ detector.is_fitted = ret[c].entry.is_fitted

\* C4: after a fit call that completed, whatever was fitted before, the
\* detector is in the state of a fresh detector of the same contamination
\* fitted on that batch alone, and predicts as that one does on every batch.
C4_FitReplaces ==
    \A c \in AllCallers :
        (ret[c].op = "fit" /\ ~ret[c].raised) =>
            LET fresh == fit(NewDetector(detector.contamination), ret[c].df).self
            IN /\ detector = fresh
               /\ \A df \in Batches : predict(detector, df) = predict(fresh, df)

\* a fit completed on a detector that was fitted on another batch before
C4_Witness ==
    /\ ret[MainCaller].op = "fit"
    /\ ~ret[MainCaller].raised
    /\ ret[MainCaller].entry.is_fitted
    /\ ret[MainCaller].entry.scaler.fitted
    /\ ret[MainCaller].entry.scaler # detector.scaler

\* C5: during and after a predict call, whether it returns or raises, the
\* detector (contamination, scaler, forest, is_fitted) is what it was when
\* the call was made, so predict on the same records again gives the same
\* outcome.
C5_PredictFrame ==
    \A c \in AllCallers :
        /\ frame[c].op = "predict" => detector = frame[c].entry
        /\ ret[c].op = "predict" =>
              /\ detector = ret[c].entry
              /\ SameOutcome(ret[c], predict(detector, ret[c].df))

\* a predict call returned results
C5_Witness ==
    /\ ret[MainCaller].op = "predict"
    /\ ~ret[MainCaller].raised
    /\ Len(ret[MainCaller].value) >= 1

\* C6: with predict calls of independent callers interleaved line by line on
\* a fitted detector and no fit running, each call ends as it would have
\* ended had it run alone on the detector it was called on.
C6_ConcurrentPredict ==
    \A c \in Callers :
        /\ ret[c].op = "predict" =>
              SameOutcome(ret[c], predict(ret[c].entry, ret[c].df))
        /\ At(c, "predict", "assemble") =>
              Results(frame[c].df, frame[c].anomaly_scores, frame[c].anomaly_predictions)
                  = predict(frame[c].entry, frame[c].df).value

\* two predict calls on different batches are in progress at once, one about
\* to return and the other between its lines
C6_Witness ==
    /\ At("t1", "predict", "assemble")
    /\ frame["t2"].op = "predict"
    /\ frame["t2"].pc \in {"scale", "score"}
    /\ frame["t1"].df # frame["t2"].df
    /\ frame["t2"].df # <<>>

\* the categorical columns and the feature each is encoded into
CategoryFeatures ==
    {<<"PRODUCTLINE", F_PRODUCT>>, <<"COUNTRY", F_COUNTRY>>, <<"STATUS", F_STATUS>>}

\* the code the last completed fit gave to value v of a categorical column,
\* -1 for a value its batch did not contain
FitCode(field, v) ==
    LET column == Column(fit_df, field)
    IN IF \E i \in 1..Len(column) : column[i] = v
       THEN CategoricalCodes(column)[CHOOSE i \in 1..Len(column) : column[i] = v]
       ELSE -1

\* C7: the features predict builds encode every PRODUCTLINE, COUNTRY and
\* STATUS value with the code the fitting batch gave it, and a value the
\* fitting batch did not contain with -1.
C7_CanonicalEncoding ==
    \A c \in AllCallers :
        (frame[c].op = "predict" /\ frame[c].features # <<>>) =>
            \A i \in 1..Len(frame[c].df) : \A cf \in CategoryFeatures :
                frame[c].features[i][cf[2]].v = FitCode(cf[1], frame[c].df[i][cf[1]])

HasZeroQuantity(df) == \E i \in 1..Len(df) : df[i].QUANTITYORDERED = 0

\* C8: the feature row of a record with QUANTITYORDERED = 0 holds a finite
\* sales_per_quantity, and a fit or predict call on a batch with such a
\* record is not aborted by the validation of the feature matrix.
C8_DegenerateQuantity ==
    \A c \in AllCallers :
        /\ \A i \in 1..Len(frame[c].features) :
              frame[c].df[i].QUANTITYORDERED = 0 =>
                  IsFinite(frame[c].features[i][F_SALES_PER_QUANTITY])
        /\ (ret[c].op \in {"fit", "predict"} /\ HasZeroQuantity(ret[c].df)) =>
              ~(ret[c].raised /\ ret[c].error = "ValueError")

\* C9: the results predict returns have one row per row of the batch, in the
\* order of the batch; row i holds the fields of input row i unchanged, the
\* anomaly_score the fitted forest gives the standardized features of row i,
\* and the flag and severity of that score.
C9_OrderPreserved ==
    \A c \in AllCallers :
        (ret[c].op = "predict" /\ ~ret[c].raised) =>
            LET df == ret[c].df
                self == ret[c].entry
                X == ScaleMatrix(self.scaler, prepare_features(df).value)
                score(i) == 100 * ScoreSamples(self.isolation_forest.train, X[i])
                               - self.isolation_forest.offset
            IN /\ Len(ret[c].value) = Len(df)
               /\ \A i \in 1..Len(df) :
                     LET row == ret[c].value[i]
                     IN /\ row.ORDERNUMBER = df[i].ORDERNUMBER
                        /\ row.SALES = df[i].SALES
                        /\ row.QUANTITYORDERED = df[i].QUANTITYORDERED
                        /\ row.ORDERDATE = df[i].ORDERDATE
                        /\ row.PRODUCTLINE = df[i].PRODUCTLINE
                        /\ row.COUNTRY = df[i].COUNTRY
                        /\ row.STATUS = df[i].STATUS
                        /\ row.anomaly_score = score(i)
                        /\ row.is_anomaly = (score(i) < 0)
                        /\ row.anomaly_severity = Abs(score(i))

\* predict returned two rows for two different orders with different scores
C9_Witness ==
    /\ ret[MainCaller].op = "predict"
    /\ ~ret[MainCaller].raised
    /\ Len(ret[MainCaller].value) = 2
    /\ ret[MainCaller].value[1].ORDERNUMBER # ret[MainCaller].value[2].ORDERNUMBER
    /\ ret[MainCaller].value[1].anomaly_score # ret[MainCaller].value[2].anomaly_score

\* the results of predict on the batch the detector was just fitted on, as
\* detect_sales_anomalies holds and returns them
FittedBatchResults(c) ==
    IF At(c, "detect", "summary") THEN frame[c].results
    ELSE IF ret[c].op = "detect" /\ ~ret[c].raised THEN ret[c].value
    ELSE <<>>

Flagged(rows) == {i \in 1..Len(rows) : rows[i].is_anomaly}

\* no unflagged row has a lower score than a flagged one
FlagsFollowScores(rows) ==
    \A i \in Flagged(rows) : \A j \in (1..Len(rows)) \ Flagged(rows) :
        ~(rows[j].anomaly_score < rows[i].anomaly_score)

DistinctScores(rows) ==
    \A i, j \in 1..Len(rows) :
        i # j => rows[i].anomaly_score # rows[j].anomaly_score

\* C10 (as claimed): no unflagged row scores lower than a flagged one, and on
\* the batch the detector was fitted on the number of flagged rows is within
\* one of contamination x batch size.
C10_WithinOneRecord ==
    \A c \in AllCallers :
        LET rows == FittedBatchResults(c)
            expected == detector.contamination * Len(rows)
        IN /\ FlagsFollowScores(rows)
           /\ 100 * Cardinality(Flagged(rows)) <= expected + 100
           /\ 100 * Cardinality(Flagged(rows)) >= expected - 100

\* C10 (amended): no unflagged row scores lower than a flagged one, every
\* flagged row has a negative score and every unflagged one a score >= 0; on
\* the batch the detector was fitted on the number of flagged rows is below
\* contamination x batch size + 1, and within one of contamination x batch
\* size when the scores of the batch are all different.
C10_AtMostContamination ==
    \A c \in AllCallers :
        LET rows == FittedBatchResults(c)
            expected == detector.contamination * Len(rows)
        IN /\ FlagsFollowScores(rows)
           /\ \A i \in 1..Len(rows) : rows[i].is_anomaly = (rows[i].anomaly_score < 0)
           /\ 100 * Cardinality(Flagged(rows)) < expected + 100
           /\ DistinctScores(rows) =>
                 100 * Cardinality(Flagged(rows)) >= expected - 100

\* detect_sales_anomalies scored a batch of three records with different
\* scores at contamination 0.5 and flagged one of them
C10_Witness ==
    LET rows == FittedBatchResults(MainCaller)
    IN /\ Len(rows) = 3
       /\ DistinctScores(rows)
       /\ detector.contamination = 50
       /\ Cardinality(Flagged(rows)) = 1

\* C11: in every row of every result predict returns, anomaly_severity is the
\* absolute value of the row's anomaly_score, so never negative, and
\* is_anomaly is true exactly when the fitted forest classifies the row's
\* standardized features as an outlier (-1).
C11_SeverityAndFlag ==
    \A c \in AllCallers :
        (ret[c].op = "predict" /\ ~ret[c].raised) =>
            LET self == ret[c].entry
                X == ScaleMatrix(self.scaler, prepare_features(ret[c].df).value)
                classes == ForestPredict(self.isolation_forest, X)
            IN \A i \in 1..Len(ret[c].value) :
                  LET row == ret[c].value[i]
                  IN /\ row.anomaly_severity >= 0
                     /\ row.anomaly_severity \in {row.anomaly_score, -row.anomaly_score}
                     /\ row.is_anomaly <=> (classes[i] = -1)

\* predict returned a row the forest classifies as an outlier, with a
\* negative score, next to a row it classifies as an inlier
C11_Witness ==
    /\ ret[MainCaller].op = "predict"
    /\ ~ret[MainCaller].raised
    /\ \E i, j \in 1..Len(ret[MainCaller].value) :
          /\ ret[MainCaller].value[i].is_anomaly
          /\ ret[MainCaller].value[i].anomaly_score < 0
          /\ ret[MainCaller].value[i].anomaly_severity > 0
          /\ ~ret[MainCaller].value[j].is_anomaly

(***************************************************************************)
(* get_anomaly_summary on any result set                                   *)
(***************************************************************************)
\* the longest result set summarized
MaxResults == 6

\* rows of a result set: two flagged rows of different orders with the same
\* score, a flagged row with a lower score, and a row that is not flagged
ResultRows ==
    {ResultRow(OrderA, -200, -1), ResultRow(OrderB, -200, -1),
     ResultRow(OrderA, -500, -1), ResultRow(OrderB, 100, 1)}

ResultSets == BatchesOf(ResultRows, MaxResults)

\* detector.get_anomaly_summary(results_df) has been called on a result set
InitSummary ==
    /\ \E c \in Contaminations : detector = NewDetector(c)
    /\ \E results_df \in ResultSets :
          frame = [c \in {MainCaller} |->
                      [Idle EXCEPT !.op = "get_anomaly_summary", !.pc = "enter",
                                   !.entry = detector, !.results = results_df]]
    /\ ret = [c \in {MainCaller} |-> NoReturn]
    /\ fit_df = <<>>

\* the call runs and returns its summary
SummaryReturn(c) ==
    /\ At(c, "get_anomaly_summary", "enter")
    /\ ret' = [ret EXCEPT ![c] = [op |-> "get_anomaly_summary", df |-> <<>>,
                                   entry |-> frame[c].entry,
                                   raised |-> FALSE, error |-> "",
                                   value |-> frame[c].results,
                                   summary |-> get_anomaly_summary(frame[c].results)]]
    /\ frame' = [frame EXCEPT ![c] = Idle]
    /\ UNCHANGED <<detector, fit_df>>

NextSummary == SummaryReturn(MainCaller)

SpecSummary == InitSummary /\ [][NextSummary]_vars

\* the call of c to get_anomaly_summary has returned
Summarized(c) == ret[c].op = "get_anomaly_summary" /\ ~ret[c].raised

\* C12: get_anomaly_summary on a result set with no flagged row, a result set
\* of zero rows included, returns a summary of exactly total_anomalies = 0,
\* anomaly_rate = 0.0 and a message; the rate is the constant 0.0, not a
\* quotient by the number of rows.
C12_NoAnomalies ==
    \A c \in AllCallers :
        (ret[c].op = "get_anomaly_summary" /\ Flagged(ret[c].value) = {}) =>
            /\ ~ret[c].raised
            /\ DOMAIN ret[c].summary = {"total_anomalies", "anomaly_rate", "message"}
            /\ ret[c].summary.total_anomalies = 0
            /\ ret[c].summary.anomaly_rate = <<0, 1>>
            /\ ret[c].summary.message = "No anomalies detected"

\* a result set of zero rows was summarized
C12_Witness ==
    /\ Summarized(MainCaller)
    /\ ret[MainCaller].value = <<>>
    /\ ret[MainCaller].summary.total_anomalies = 0

Min(a, b) == IF a < b THEN a ELSE b

\* the flagged rows of rows that come before flagged row j when the flagged
\* rows are put in ascending anomaly_score, rows of equal score in input order
Before(rows, j) ==
    {k \in Flagged(rows) :
        \/ rows[k].anomaly_score < rows[j].anomaly_score
        \/ rows[k].anomaly_score = rows[j].anomaly_score /\ k < j}

\* the positions in rows of the flagged rows listed in top_anomalous_orders
Listed(rows) == {j \in Flagged(rows) : Cardinality(Before(rows, j)) < 5}

\* C13: when at least one row is flagged, top_anomalous_orders has
\* min(5, number of flagged rows) entries; entry n is the flagged row that n-1
\* flagged rows precede in ascending anomaly_score with equal scores in input
\* order, so the entries are in ascending score and every flagged row left
\* out scores no lower than any listed one; each entry holds exactly
\* ORDERNUMBER, SALES and anomaly_score of its row.
C13_TopAnomalousOrders ==
    \A c \in AllCallers :
        (Summarized(c) /\ Flagged(ret[c].value) # {}) =>
            LET rows == ret[c].value
                top == ret[c].summary.top_anomalous_orders
            IN /\ Len(top) = Min(5, Cardinality(Flagged(rows)))
               /\ \A j \in Listed(rows) :
                     LET entry == top[Cardinality(Before(rows, j)) + 1]
                     IN /\ DOMAIN entry = {"ORDERNUMBER", "SALES", "anomaly_score"}
                        /\ entry.ORDERNUMBER = rows[j].ORDERNUMBER
                        /\ entry.SALES = rows[j].SALES
                        /\ entry.anomaly_score = rows[j].anomaly_score
               /\ \A n \in 1..(Len(top) - 1) :
                     top[n].anomaly_score <= top[n + 1].anomaly_score
               /\ \A j \in Flagged(rows) \ Listed(rows) : \A n \in 1..Len(top) :
                     rows[j].anomaly_score >= top[n].anomaly_score

\* six flagged rows were summarized: two of different orders tie at the
\* lowest score and are listed in input order, and one row is left out
C13_Witness ==
    /\ Summarized(MainCaller)
    /\ Cardinality(Flagged(ret[MainCaller].value)) = 6
    /\ Len(ret[MainCaller].summary.top_anomalous_orders) = 5
    /\ ret[MainCaller].value[1].ORDERNUMBER = 2
    /\ ret[MainCaller].summary.top_anomalous_orders[1].ORDERNUMBER = 2
    /\ ret[MainCaller].summary.top_anomalous_orders[2].ORDERNUMBER = 1
    /\ ret[MainCaller].summary.top_anomalous_orders[1].anomaly_score =
          ret[MainCaller].summary.top_anomalous_orders[2].anomaly_score

\* the values of a field over the flagged rows
FlaggedValues(rows, field) == {rows[i][field] : i \in Flagged(rows)}

\* counts is the frequency map of field over the flagged rows of rows
FrequencyMap(counts, rows, field) ==
    /\ DOMAIN counts = FlaggedValues(rows, field)
    /\ \A v \in DOMAIN counts :
          counts[v] = Cardinality({i \in Flagged(rows) : rows[i][field] = v})

RECURSIVE SumOver(_, _)
SumOver(counts, keys) ==
    IF keys = {} THEN 0
    ELSE LET v == CHOOSE v \in keys : TRUE
         IN counts[v] + SumOver(counts, keys \ {v})

\* C14: when at least one row is flagged, total_anomalies is the number of
\* flagged rows, anomaly_rate is total_anomalies / rows x 100 and lies in
\* (0, 100], max_anomaly_score is the least anomaly_score of a flagged row,
\* and anomaly_by_product, anomaly_by_country and anomaly_by_status are
\* frequency maps over the flagged rows whose counts sum to total_anomalies.
C14_SummaryFigures ==
    \A c \in AllCallers :
        (Summarized(c) /\ Flagged(ret[c].value) # {}) =>
            LET rows == ret[c].value
                summary == ret[c].summary
                total == Cardinality(Flagged(rows))
            IN /\ summary.total_anomalies = total
               /\ summary.anomaly_rate = <<summary.total_anomalies * 100, Len(rows)>>
               /\ summary.anomaly_rate[1] > 0
               /\ summary.anomaly_rate[1] <= 100 * summary.anomaly_rate[2]
               /\ \E i \in Flagged(rows) : rows[i].anomaly_score = summary.max_anomaly_score
               /\ \A i \in Flagged(rows) : rows[i].anomaly_score >= summary.max_anomaly_score
               /\ FrequencyMap(summary.anomaly_by_product, rows, "PRODUCTLINE")
               /\ FrequencyMap(summary.anomaly_by_country, rows, "COUNTRY")
               /\ FrequencyMap(summary.anomaly_by_status, rows, "STATUS")
               /\ SumOver(summary.anomaly_by_product, DOMAIN summary.anomaly_by_product) = total
               /\ SumOver(summary.anomaly_by_country, DOMAIN summary.anomaly_by_country) = total
               /\ SumOver(summary.anomaly_by_status, DOMAIN summary.anomaly_by_status) = total

\* a result set with flagged rows of two product lines and a row that is not
\* flagged was summarized: three of its four rows are flagged
C14_Witness ==
    /\ Summarized(MainCaller)
    /\ Len(ret[MainCaller].value) = 4
    /\ ret[MainCaller].summary.total_anomalies = 3
    /\ ret[MainCaller].summary.anomaly_rate = <<300, 4>>
    /\ ret[MainCaller].summary.max_anomaly_score = -500
    /\ Cardinality(DOMAIN ret[MainCaller].summary.anomaly_by_product) = 2

\* C15: detect_sales_anomalies(df, contamination) returns what the
\* composition returns: with a detector newly constructed with that
\* contamination, fit(df), then predict(df), then get_anomaly_summary of the
\* predict result.  Nothing of an earlier call enters the outcome, and when
\* fit raises the call raises the same error and returns neither results nor
\* summary.
C15_Composition ==
    \A c \in AllCallers :
        ret[c].op = "detect" =>
            LET df == ret[c].df
                fitted == fit(NewDetector(ret[c].entry.contamination), df)
                results == predict(fitted.self, df)
            IN IF fitted.raised
               THEN /\ ret[c].raised
                    /\ ret[c].error = fitted.error
                    /\ ret[c].value = <<>>
                    /\ ret[c].summary = <<>>
               ELSE IF results.raised
               THEN /\ ret[c].raised
                    /\ ret[c].error = results.error
                    /\ ret[c].value = <<>>
                    /\ ret[c].summary = <<>>
               ELSE /\ ~ret[c].raised
                    /\ ret[c].value = results.value
                    /\ ret[c].summary = get_anomaly_summary(results.value)

\* detect_sales_anomalies returned the results and the summary of a batch of
\* three records, one of them flagged
C15_Witness ==
    /\ ret[MainCaller].op = "detect"
    /\ ~ret[MainCaller].raised
    /\ Len(ret[MainCaller].value) = 3
    /\ ret[MainCaller].summary.total_anomalies = 1
    /\ Len(ret[MainCaller].summary.top_anomalous_orders) = 1

\* the detectors with contamination k that one fit call on one batch leaves:
\* scaler and forest trained on the same batch
TrainedTogether(k) ==
    {fit(NewDetector(k), df).self :
        df \in {b \in Batches : ~fit(NewDetector(k), b).raised}}

\* C16: whenever is_fitted is true, the scaler and the forest of the detector
\* were trained on the same batch: in no state, the states between the lines
\* of a second fit call and the state a failed second fit leaves included,
\* does predict succeed with a scaler fitted on one batch and a forest fitted
\* on another.  Every result a predict call started in the state returns is
\* the result of a detector whose scaler and forest one fit call trained.
C16_TrainedTogether ==
    detector.is_fitted =>
        \A df \in Batches :
            LET done == predict(detector, df)
            IN ~done.raised =>
                  \E d \in TrainedTogether(detector.contamination) :
                      predict(d, df).value = done.value

(***************************************************************************)
(* SalesInsightsGenerator                                                  *)
(***************************************************************************)
\* the longest sales dataset insights are generated from
MaxSales == 3

SalesRecord(number, year, month, sales, product, customer) ==
    [ORDERNUMBER |-> number, YEAR |-> year, MONTH |-> month, SALES |-> sales,
     QUANTITYORDERED |-> 2, PRODUCTLINE |-> product, CUSTOMERNAME |-> customer]

\* sales of two years, two product lines and two customers; SALES is positive
SalesRecords ==
    {SalesRecord(1, 2003, 2, 30, "Motorcycles", "Atelier graphique"),
     SalesRecord(2, 2003, 5, 1, "Classic Cars", "Atelier graphique"),
     SalesRecord(3, 2004, 2, 30, "Classic Cars", "Baane Mini Imports"),
     SalesRecord(4, 2004, 5, 8, "Motorcycles", "Baane Mini Imports")}

SalesData == BatchesOf(SalesRecords, MaxSales) \ {<<>>}

\* the group keys of the model in the ascending order groupby puts them in
GroupOrder ==
    <<"Atelier graphique", "Baane Mini Imports", "Classic Cars", "Motorcycles">>

\* the numbers of a set, ascending
RECURSIVE Ascending(_)
Ascending(S) ==
    IF S = {} THEN <<>>
    ELSE LET least == CHOOSE x \in S : \A y \in S : x <= y
         IN <<least>> \o Ascending(S \ {least})

\* the values of a column that are present, in groupby order
GroupKeys(df, field) ==
    LET present == {df[i][field] : i \in 1..Len(df)}
        positions == Ascending({i \in 1..Len(GroupOrder) : GroupOrder[i] \in present})
    IN [n \in 1..Len(positions) |-> GroupOrder[positions[n]]]

\* df.groupby(field)['SALES'].sum() at one key
GroupSales(df, field, key) ==
    SumSeq(Column(SelectSeq(df, LAMBDA r : r[field] = key), "SALES"))

\* Series.idxmax() / idxmin(): the first position of the largest / least value
IdxMax(s) ==
    CHOOSE i \in 1..Len(s) :
        /\ \A j \in 1..Len(s) : s[j] <= s[i]
        /\ \A j \in 1..(i - 1) : s[j] < s[i]

IdxMin(s) ==
    CHOOSE i \in 1..Len(s) :
        /\ \A j \in 1..Len(s) : s[j] >= s[i]
        /\ \A j \in 1..(i - 1) : s[j] > s[i]

\* df.groupby(['YEAR', 'MONTH'])['SALES'].sum().reset_index(): one row per
\* month present, in calendar order
monthly_sales(df) ==
    LET months == Ascending({df[i].YEAR * 12 + df[i].MONTH - 1 : i \in 1..Len(df)})
    IN [n \in 1..Len(months) |->
           [YEAR |-> months[n] \div 12,
            MONTH |-> (months[n] % 12) + 1,
            SALES |-> SumSeq(Column(SelectSeq(df,
                         LAMBDA r : r.YEAR * 12 + r.MONTH - 1 = months[n]), "SALES"))]]

\* df.groupby('YEAR')['SALES'].sum(), in ascending year
yearly_sales(df) ==
    LET years == Ascending({df[i].YEAR : i \in 1..Len(df)})
    IN [n \in 1..Len(years) |-> GroupSales(df, "YEAR", years[n])]

\* generate_trend_insights(df).  The text of an insight is kept as the
\* values its f-string formats; a percentage as numerator and denominator.
generate_trend_insights(df) ==
    LET monthly == monthly_sales(df)
        best_month == monthly[IdxMax(Column(monthly, "SALES"))]
        worst_month == monthly[IdxMin(Column(monthly, "SALES"))]
        yearly == yearly_sales(df)
        last == yearly[Len(yearly)]
        previous == yearly[Len(yearly) - 1]
    IN <<[type |-> "trend",
          title |-> "Monthly Performance",
          insight |-> <<"Best performing month", best_month.MONTH,
                        best_month.YEAR, best_month.SALES>>,
          recommendation |-> "Analyze what made this month successful and replicate strategies",
          impact |-> "high"],
         [type |-> "trend",
          title |-> "Monthly Performance",
          insight |-> <<"Lowest performing month", worst_month.MONTH,
                        worst_month.YEAR, worst_month.SALES>>,
          recommendation |-> "Investigate factors that led to poor performance and develop recovery strategies",
          impact |-> "medium"]>>
       \o (IF Len(yearly) > 1
           THEN IF last - previous > 0
                THEN <<[type |-> "trend",
                        title |-> "Year-over-Year Growth",
                        insight |-> <<"Sales grew by", (last - previous) * 100, previous>>,
                        recommendation |-> "Maintain current strategies and consider scaling successful initiatives",
                        impact |-> "high"]>>
                ELSE <<[type |-> "trend",
                        title |-> "Year-over-Year Decline",
                        insight |-> <<"Sales declined by", (previous - last) * 100, previous>>,
                        recommendation |-> "Urgent action needed to reverse declining trend",
                        impact |-> "critical"]>>
           ELSE <<>>)

\* generate_product_insights(df).  product_sales is sorted by descending
\* sales, product lines of equal sales in groupby order: the top performer is
\* the first of the largest, the bottom one the last of the least.
generate_product_insights(df) ==
    LET products == GroupKeys(df, "PRODUCTLINE")
        sales == [n \in 1..Len(products) |-> GroupSales(df, "PRODUCTLINE", products[n])]
        total_sales == SumSeq(sales)
        top == IdxMax(sales)
        bottom == CHOOSE i \in 1..Len(sales) :
                      /\ \A j \in 1..Len(sales) : sales[j] >= sales[i]
                      /\ \A j \in (i + 1)..Len(sales) : sales[j] > sales[i]
    IN <<[type |-> "product",
          title |-> "Product Performance",
          insight |-> <<"top performer", products[top], sales[top] * 100, total_sales>>,
          recommendation |-> "Increase marketing and inventory for this product line",
          impact |-> "high"]>>
       \o (IF sales[bottom] * 100 < 5 * total_sales
           THEN <<[type |-> "product",
                   title |-> "Product Performance",
                   insight |-> <<"underperforming", products[bottom],
                                 sales[bottom] * 100, total_sales>>,
                   recommendation |-> "Consider discontinuing or rebranding this product line",
                   impact |-> "medium"]>>
           ELSE <<>>)

\* generate_customer_insights(df)
generate_customer_insights(df) ==
    LET customers == GroupKeys(df, "CUSTOMERNAME")
        total_sales == [n \in 1..Len(customers) |->
                           GroupSales(df, "CUSTOMERNAME", customers[n])]
        order_count == [n \in 1..Len(customers) |->
                           Len(SelectSeq(df, LAMBDA r : r.CUSTOMERNAME = customers[n]))]
        top_customer == IdxMax(total_sales)
        repeat_customers == {n \in 1..Len(customers) : order_count[n] > 1}
    IN <<[type |-> "customer",
          title |-> "Customer Value",
          insight |-> <<"highest value customer", customers[top_customer],
                        total_sales[top_customer]>>,
          recommendation |-> "Implement VIP program and personalized service for high-value customers",
          impact |-> "high"]>>
       \o (IF Cardinality(repeat_customers) * 100 < 30 * Len(customers)
           THEN <<[type |-> "customer",
                   title |-> "Customer Loyalty",
                   insight |-> <<"repeat purchases", Cardinality(repeat_customers) * 100,
                                 Len(customers)>>,
                   recommight |-> "Implement customer retention programs and loyalty incentives",
                   impact |-> "high"]>>
           ELSE <<>>)

\* impact_order.get(impact, 4)
impact_order(impact) ==
    CASE impact = "critical" -> 0
      [] impact = "high" -> 1
      [] impact = "medium" -> 2
      [] impact = "low" -> 3
      [] OTHER -> 4

\* x put into s after every element whose impact does not come later
RECURSIVE InsertByImpact(_, _)
InsertByImpact(x, s) ==
    IF s = <<>> THEN <<x>>
    ELSE IF impact_order(Head(s).impact) <= impact_order(x.impact)
         THEN <<Head(s)>> \o InsertByImpact(x, Tail(s))
         ELSE <<x>> \o s

\* list.sort(key=...): ascending impact_order, stable
RECURSIVE SortByImpact(_)
SortByImpact(s) ==
    IF s = <<>> THEN <<>>
    ELSE InsertByImpact(s[Len(s)], SortByImpact(SubSeq(s, 1, Len(s) - 1)))

\* the insights in the order the three generators append them
AllGenerated(df) ==
    generate_trend_insights(df) \o generate_product_insights(df)
        \o generate_customer_insights(df)

generate_all_insights(df) == SortByImpact(AllGenerated(df))

\* the keys format_insights_report reads of every insight
InsightKeys == {"type", "title", "insight", "recommendation", "impact"}

\* format_insights_report(insights): one section per type, in the order the
\* types first appear, each with its insights in list order; KeyError when
\* an insight lacks a key that is read.  The report is kept as its sections,
\* without the heading and the time of generation.
format_insights_report(insights) ==
    IF insights = <<>> THEN Ok("No insights generated.")
    ELSE IF \E i \in 1..Len(insights) : ~(InsightKeys \subseteq DOMAIN insights[i])
    THEN Raise("KeyError")
    ELSE LET first(t) == CHOOSE i \in 1..Len(insights) :
                            /\ insights[i].type = t
                            /\ \A j \in 1..(i - 1) : insights[j].type # t
             firsts == Ascending({first(insights[i].type) : i \in 1..Len(insights)})
             item(x) == [title |-> x.title, insight |-> x.insight,
                         recommendation |-> x.recommendation, impact |-> x.impact]
             section(t) == LET type_insights == SelectSeq(insights, LAMBDA x : x.type = t)
                           IN [type |-> t,
                               items |-> [i \in 1..Len(type_insights) |->
                                             item(type_insights[i])]]
         IN Ok([n \in 1..Len(firsts) |-> section(insights[firsts[n]].type)])

\* generate_sales_insights(df) has been called on a dataset
InitInsights ==
    /\ detector = NewDetector(10)
    /\ \E df \in SalesData :
          frame = [c \in {MainCaller} |->
                      [Idle EXCEPT !.op = "insights", !.pc = "generate", !.df = df]]
    /\ ret = [c \in {MainCaller} |-> NoReturn]
    /\ fit_df = <<>>

\* insights = generator.generate_all_insights(df)
GenerateAllInsights(c) ==
    /\ At(c, "insights", "generate")
    /\ Goto(c, "format", "results", generate_all_insights(frame[c].df))
    /\ UNCHANGED <<detector, fit_df>>

\* report = generator.format_insights_report(insights); return insights, report
FormatInsightsReport(c) ==
    /\ At(c, "insights", "format")
    /\ LET report == format_insights_report(frame[c].results)
       IN IF report.raised
          THEN Raised(c, report.error)
          ELSE /\ ret' = [ret EXCEPT ![c] = [op |-> "insights", df |-> frame[c].df,
                                              entry |-> frame[c].entry,
                                              raised |-> FALSE, error |-> "",
                                              value |-> frame[c].results,
                                              summary |-> report.value]]
               /\ frame' = [frame EXCEPT ![c] = Idle]
    /\ UNCHANGED <<detector, fit_df>>

NextInsights ==
    \/ GenerateAllInsights(MainCaller)
    \/ FormatInsightsReport(MainCaller)

SpecInsights == InitInsights /\ [][NextInsights]_vars

\* the place in the sorted list of insight i of the generated list: after the
\* insights of an earlier impact and the earlier insights of the same impact
Place(generated, i) ==
    1 + Cardinality({j \in 1..Len(generated) :
            \/ impact_order(generated[j].impact) < impact_order(generated[i].impact)
            \/ /\ impact_order(generated[j].impact) = impact_order(generated[i].impact)
               /\ j < i})

\* the list generate_all_insights returns is the generated insights ordered
\* critical, high, medium, low, insights of equal impact in generation order
ImpactOrdered(insights, generated) ==
    /\ Len(insights) = Len(generated)
    /\ \A i \in 1..Len(generated) : insights[Place(generated, i)] = generated[i]
    /\ \A n \in 1..(Len(insights) - 1) :
          impact_order(insights[n].impact) <= impact_order(insights[n + 1].impact)

\* C17: every insight generate_all_insights returns has the keys type, title,
\* insight, recommendation and impact, so format_insights_report of that list
\* never fails on a missing key, whatever the dataset; and the list is
\* ordered critical, high, medium, low with insights of equal impact in
\* generation order.
C17_InsightsWellFormed ==
    \A c \in AllCallers :
        /\ At(c, "insights", "format") =>
              /\ \A i \in 1..Len(frame[c].results) :
                    InsightKeys \subseteq DOMAIN frame[c].results[i]
              /\ ImpactOrdered(frame[c].results, AllGenerated(frame[c].df))
        /\ ret[c].op = "insights" => ~ret[c].raised

=============================================================================
